---- MODULE Spec2Model ----
(***************************************************************************)
(* FMStats: the MusicAnalyzer engine (record store, CSV adapter, metadata  *)
(* overlay).  Two versions of the class are in the repository:             *)
(*   "manual" - src/src/utils/musicAnalyzer.ts, parseCSV splits the text   *)
(*              itself and requires the columns Artist,Album,Track,Count;  *)
(*   "papa"   - src/unnamed/part_001, parseCSV hands the file to Papa      *)
(*              Parse and works on the rows of its result.                 *)
(* The update operations, the constructor, saveMetadata, saveToCSV and    *)
(* analyze are the same text in both.                                      *)
(*                                                                         *)
(* A JavaScript string is a sequence of atoms.  An atom is one character   *)
(* (" ", ",", "\n", "|", "-", a digit, a letter) or a run of letters that  *)
(* no operation of the code ever splits ("Artist", "Rock").  The empty     *)
(* string is << >>.                                                        *)
(***************************************************************************)
EXTENDS Integers, Sequences, FiniteSets, TLC

VARIABLES
    variant,        \* which version of the class this engine is
    tracks,         \* this.tracks
    originalData,   \* this.originalData
    metadata,       \* this.metadata
    localStorage,   \* the browser's localStorage: item name -> stored text
    call,           \* the last call made on the engine and how it ended
    input,          \* the argument of the last parseCSV call
    writeFailures,  \* how many localStorage.setItem calls have thrown
    loaded,         \* whether a parseCSV call has resolved on this engine
    csv,            \* the table of the last file saveToCSV has emitted
    statistics,     \* the snapshot the last analyze call has returned
    second,         \* a second engine constructed on the same localStorage
    writer,         \* the engine whose setItem call returned last
    loads,          \* the parseCSV calls started on the engine, in order
    currentSong,    \* Home: the song the duration prompt asks for
    showDurationInput  \* Home: whether the duration prompt is open

vars == <<variant, tracks, originalData, metadata, localStorage, call, input,
          writeFailures, loaded, csv, statistics,
          second, writer, loads, currentSong, showDurationInput>>

\* What a call on the engine does not touch: the second engine, the list
\* of started loads and the state of the Home page.
beside == <<second, loads, currentSong, showDurationInput>>

----------------------------------------------------------------------------
(* Bounds of the model. *)

MaxRows == 2            \* data lines of a CSV text, rows of a Papa result
MaxWriteFailures == 1   \* setItem calls that throw in one run
MaxLoads == 2           \* parseCSV calls started on one engine

----------------------------------------------------------------------------
(* JavaScript values. *)

\* The value undefined (no string is this one-atom sequence).
Undefined == <<"<undefined>">>

\* A one-atom string.
S(a) == <<a>>

\* An object with no property.
EmptyObject == [f \in {} |-> << >>]

\* obj[f] of JavaScript: undefined for a property the object lacks.
Get(obj, f) == IF f \in DOMAIN obj THEN obj[f] ELSE Undefined

\* x || d for a string-or-undefined x.
OrElse(x, d) == IF x = Undefined \/ x = << >> THEN d ELSE x

\* { ...a, ...b }
Spread(a, b) ==
    [f \in DOMAIN a \cup DOMAIN b |-> IF f \in DOMAIN b THEN b[f] ELSE a[f]]

\* The white space String.prototype.trim removes (line ends included).
WhiteSpace == {" ", "\n", "\r"}

RECURSIVE TrimStart(_)
TrimStart(s) ==
    IF s # << >> /\ Head(s) \in WhiteSpace THEN TrimStart(Tail(s)) ELSE s

RECURSIVE TrimEnd(_)
TrimEnd(s) ==
    IF s # << >> /\ s[Len(s)] \in WhiteSpace
    THEN TrimEnd(SubSeq(s, 1, Len(s) - 1))
    ELSE s

\* String.prototype.trim
Trim(s) == TrimEnd(TrimStart(s))

\* String.prototype.split(sep) for a one-character separator: always at
\* least one piece, the pieces are the runs between separators.
Split(s, sep) ==
    LET seps == {i \in 1..Len(s) : s[i] = sep}
        n == Cardinality(seps)
        SepAt(k) == IF k = 0 THEN 0
                    ELSE IF k = n + 1 THEN Len(s) + 1
                    ELSE CHOOSE i \in seps : Cardinality({j \in seps : j < i}) = k - 1
    IN  [k \in 1..(n + 1) |-> SubSeq(s, SepAt(k - 1) + 1, SepAt(k) - 1)]

\* Array.prototype.includes
Includes(seq, x) == \E i \in 1..Len(seq) : seq[i] = x

\* Array.prototype.indexOf, 1-based: 0 stands for JavaScript's -1.
IndexOf(seq, x) ==
    IF Includes(seq, x)
    THEN CHOOSE i \in 1..Len(seq) : seq[i] = x /\ \A j \in 1..(i - 1) : seq[j] # x
    ELSE 0

\* values[headers.indexOf(name)]: undefined when the column is absent.
At(values, i) == IF i \in 1..Len(values) THEN values[i] ELSE Undefined

Digit == {"0", "1", "2", "3", "4", "5", "6", "7", "8", "9"}

DigitValue(c) ==
    CASE c = "0" -> 0 [] c = "1" -> 1 [] c = "2" -> 2 [] c = "3" -> 3
      [] c = "4" -> 4 [] c = "5" -> 5 [] c = "6" -> 6 [] c = "7" -> 7
      [] c = "8" -> 8 [] c = "9" -> 9

\* The value of the longest prefix of digits of s, and how many digits it has.
RECURSIVE DigitsPrefix(_, _, _)
DigitsPrefix(s, acc, n) ==
    IF s # << >> /\ Head(s) \in Digit
    THEN DigitsPrefix(Tail(s), acc * 10 + DigitValue(Head(s)), n + 1)
    ELSE [value |-> acc, digits |-> n]

\* parseInt(s): leading white space skipped, an optional sign, then the
\* longest run of digits; what follows the digits is ignored.  NaN when
\* there is no digit.
ParseInt(s) ==
    LET t == TrimStart(s)
        neg == t # << >> /\ Head(t) = "-"
        signed == t # << >> /\ Head(t) \in {"-", "+"}
        p == DigitsPrefix(IF signed THEN Tail(t) ELSE t, 0, 0)
    IN  IF p.digits = 0 THEN [nan |-> TRUE, value |-> 0]
        ELSE [nan |-> FALSE, value |-> IF neg THEN 0 - p.value ELSE p.value]

\* createTrackKey: `${artist}|${album}|${track}`
createTrackKey(artist, album, track) ==
    artist \o <<"|">> \o album \o <<"|">> \o track

\* JSON.stringify of the overlay map: a property whose value is undefined is
\* not written.
JSONstringify(m) ==
    [text |-> [k \in DOMAIN m |->
        [f \in {g \in DOMAIN m[k] : m[k][g] # Undefined} |-> m[k][f]]]]

\* JSON.parse of a text JSONstringify wrote.
JSONparse(s) == s.text

\* localStorage.getItem(name) is null exactly when the item is absent.
HasItem(store, name) == name \in DOMAIN store

----------------------------------------------------------------------------
(* Errors: what a call throws, or rejects its promise with. *)

NoError == [name |-> "", message |-> ""]

\* new Error(message); the variable tail of a message (row number, column
\* names) is left out.
Error(message) == [name |-> "Error", message |-> message]

MsgEmptyFile == "CSV file is empty"
MsgNoDataRow == "CSV file must contain at least a header row and one data row"
MsgMissingColumns == "Missing required columns"
MsgInvalidData == "Invalid data in row"
MsgInvalidCount == "Invalid count value in row"
MsgNoValidTracks == "No valid tracks found in CSV file"
MsgPapaErrors == "Error parsing CSV file"
MsgNoValidData == "No valid data found in CSV file"
MsgReadFailed == "Papa Parse Error"
MsgQuota == "QuotaExceededError"

\* Calling this.loadMetadata(), a method the class does not define.
NotAFunction == [name |-> "TypeError", message |-> "this.loadMetadata is not a function"]

----------------------------------------------------------------------------
(* parseCSV of src/src/utils/musicAnalyzer.ts *)

requiredHeaders == <<S("Artist"), S("Album"), S("Track"), S("Count")>>

\* lines[0].split(',').map(h => h.trim()), and the same for a data line.
TrimmedCells(line) ==
    LET cells == Split(line, ",") IN [i \in 1..Len(cells) |-> Trim(cells[i])]

\* requiredHeaders.filter(h => !headers.includes(h))
missingHeaders(headers) ==
    SelectSeq(requiredHeaders, LAMBDA h : ~Includes(headers, h))

\* The record pushed for one data line (lines 74-94).
RowTrack(headers, values, count) ==
    [artist   |-> OrElse(At(values, IndexOf(headers, S("Artist"))), << >>),
     album    |-> OrElse(At(values, IndexOf(headers, S("Album"))), << >>),
     track    |-> OrElse(At(values, IndexOf(headers, S("Track"))), << >>),
     count    |-> count,
     duration |-> OrElse(At(values, IndexOf(headers, S("Duration"))), Undefined),
     genre    |-> OrElse(At(values, IndexOf(headers, S("Genre"))), Undefined),
     utc_time |-> OrElse(At(values, IndexOf(headers, <<"UTC", " ", "Time">>)), Undefined)]

\* parseInt(values[headers.indexOf('Count')] || '0')
RowCount(headers, values) ==
    ParseInt(OrElse(At(values, IndexOf(headers, S("Count"))), S("0")))

\* The loop with unshift in place of push: the newest record goes first.
RECURSIVE ParseRowsUnshift(_, _, _, _)
ParseRowsUnshift(lines, headers, i, acc) ==
    IF i > Len(lines) THEN [tracks |-> acc, error |-> NoError]
    ELSE LET line == Trim(lines[i]) IN
         IF line = << >> THEN ParseRowsUnshift(lines, headers, i + 1, acc)
         ELSE LET values == TrimmedCells(line) IN
              IF Len(values) # Len(headers)
              THEN [tracks |-> acc, error |-> Error(MsgInvalidData)]
              ELSE LET count == RowCount(headers, values) IN
                   IF count.nan
                   THEN [tracks |-> acc, error |-> Error(MsgInvalidCount)]
                   ELSE ParseRowsUnshift(lines, headers, i + 1,
                            <<RowTrack(headers, values, count.value)>> \o acc)

\* The loop of lines 65-95 from line i on (i = 2 is the first data line),
\* acc being this.tracks so far.  A throw leaves this.tracks as it is then.
RECURSIVE ParseRows(_, _, _, _)
ParseRows(lines, headers, i, acc) ==
    IF i > Len(lines) THEN [tracks |-> acc, error |-> NoError]
    ELSE LET line == Trim(lines[i]) IN
         IF line = << >> THEN ParseRows(lines, headers, i + 1, acc)
         ELSE LET values == TrimmedCells(line) IN
              IF Len(values) # Len(headers)
              THEN [tracks |-> acc, error |-> Error(MsgInvalidData)]
              ELSE LET count == RowCount(headers, values) IN
                   IF count.nan
                   THEN [tracks |-> acc, error |-> Error(MsgInvalidCount)]
                   ELSE ParseRows(lines, headers, i + 1,
                                  Append(acc, RowTrack(headers, values, count.value)))

\* A parseCSV that reports a file without tracks as an invalid row.
ParseTextOneMessage(text, old) ==
    IF Trim(text) = << >> THEN [tracks |-> old, error |-> Error(MsgEmptyFile)]
    ELSE LET lines == Split(text, "\n") IN
         IF Len(lines) < 2 THEN [tracks |-> old, error |-> Error(MsgNoDataRow)]
         ELSE LET headers == TrimmedCells(lines[1]) IN
              IF Len(missingHeaders(headers)) > 0
              THEN [tracks |-> old, error |-> Error(MsgMissingColumns)]
              ELSE LET r == ParseRows(lines, headers, 2, << >>) IN
                   IF r.error # NoError THEN r
                   ELSE IF Len(r.tracks) = 0
                   THEN [tracks |-> r.tracks, error |-> Error(MsgInvalidData)]
                   ELSE [tracks |-> r.tracks, error |-> NotAFunction]

\* The whole of parseCSV on the text of the file: this.tracks afterwards and
\* what the call threw.  old is this.tracks before the call.
ParseText(text, old) ==
    IF Trim(text) = << >> THEN [tracks |-> old, error |-> Error(MsgEmptyFile)]
    ELSE LET lines == Split(text, "\n") IN
         IF Len(lines) < 2 THEN [tracks |-> old, error |-> Error(MsgNoDataRow)]
         ELSE LET headers == TrimmedCells(lines[1]) IN
              IF Len(missingHeaders(headers)) > 0
              THEN [tracks |-> old, error |-> Error(MsgMissingColumns)]
              ELSE LET r == ParseRows(lines, headers, 2, << >>) IN
                   IF r.error # NoError THEN r
                   ELSE IF Len(r.tracks) = 0
                   THEN [tracks |-> r.tracks, error |-> Error(MsgNoValidTracks)]
                   ELSE [tracks |-> r.tracks, error |-> NotAFunction]

----------------------------------------------------------------------------
(* parseCSV of src/unnamed/part_001: the complete and error callbacks given *)
(* to Papa.parse.  Papa Parse is a library: what it hands to the callbacks  *)
(* is the input here.                                                       *)

\* Store original data, ensuring all fields exist (lines 65-74).
RawRow(row) ==
    [uts         |-> OrElse(Get(row, "uts"), << >>),
     utc_time    |-> OrElse(Get(row, "utc_time"), << >>),
     artist      |-> OrElse(Get(row, "artist"), << >>),
     artist_mbid |-> OrElse(Get(row, "artist_mbid"), << >>),
     album       |-> OrElse(Get(row, "album"), << >>),
     album_mbid  |-> OrElse(Get(row, "album_mbid"), << >>),
     track       |-> OrElse(Get(row, "track"), << >>),
     track_mbid  |-> OrElse(Get(row, "track_mbid"), << >>)]

\* this.metadata[trackKey] || { duration: '', genre: '', ... } (lines 79-85)
savedMetadata(meta, trackKey) ==
    IF trackKey \in DOMAIN meta THEN meta[trackKey]
    ELSE [duration |-> << >>, genre |-> << >>, feat |-> << >>,
          prod |-> << >>, label |-> << >>]

\* The Track made of one raw row (lines 77-94).
PapaTrack(row, meta) ==
    Spread([utc_time |-> row.utc_time, artist |-> row.artist,
            album |-> row.album, track |-> row.track],
           savedMetadata(meta, createTrackKey(row.artist, row.album, row.track)))

\* The callbacks on results: the record store afterwards and what the
\* promise was rejected with (NoError: resolved).
ParseResults(results, oldTracks, oldOriginal, meta) ==
    IF results.kind = "error"
    THEN [tracks |-> oldTracks, originalData |-> oldOriginal,
          error |-> Error(MsgReadFailed)]
    ELSE IF Len(results.errors) > 0
    THEN [tracks |-> oldTracks, originalData |-> oldOriginal,
          error |-> Error(MsgPapaErrors)]
    ELSE IF Len(results.data) = 0
    THEN [tracks |-> oldTracks, originalData |-> oldOriginal,
          error |-> Error(MsgNoValidData)]
    ELSE LET raw == [i \in 1..Len(results.data) |-> RawRow(results.data[i])] IN
         [tracks |-> [i \in 1..Len(raw) |-> PapaTrack(raw[i], meta)],
          originalData |-> raw,
          error |-> NoError]

----------------------------------------------------------------------------
(* The constructor, saveMetadata and the two update operations (the same    *)
(* lines in both versions of the class).                                    *)

\* constructor: the overlay loaded from the item 'trackMetadata', if any.
Constructor(store) ==
    IF HasItem(store, "trackMetadata") THEN JSONparse(store["trackMetadata"])
    ELSE EmptyObject

\* A saveMetadata that writes the item only when there is none yet.
saveMetadataOnce(store, meta) ==
    IF HasItem(store, "trackMetadata") THEN store
    ELSE [n \in DOMAIN store \cup {"trackMetadata"} |->
            IF n = "trackMetadata" THEN JSONstringify(meta) ELSE store[n]]

\* A saveMetadata that merges the overlay into the one the item holds.
saveMetadataMerged(store, meta) ==
    LET stored == IF HasItem(store, "trackMetadata")
                  THEN JSONparse(store["trackMetadata"]) ELSE EmptyObject
        merged == [k \in DOMAIN stored \cup DOMAIN meta |->
                      IF k \in DOMAIN meta THEN meta[k] ELSE stored[k]]
    IN  [n \in DOMAIN store \cup {"trackMetadata"} |->
            IF n = "trackMetadata" THEN JSONstringify(merged) ELSE store[n]]

\* localStorage.setItem('trackMetadata', JSON.stringify(this.metadata))
saveMetadata(store, meta) ==
    [n \in DOMAIN store \cup {"trackMetadata"} |->
        IF n = "trackMetadata" THEN JSONstringify(meta) ELSE store[n]]

\* An update that puts the updates in place of the entry.
MergedMetadataReplace(meta, trackKey, updates) ==
    [k \in DOMAIN meta \cup {trackKey} |->
        IF k = trackKey THEN updates ELSE meta[k]]

\* this.metadata[trackKey] = { ...this.metadata[trackKey] || {}, ...updates }
MergedMetadata(meta, trackKey, updates) ==
    [k \in DOMAIN meta \cup {trackKey} |->
        IF k = trackKey
        THEN Spread(IF trackKey \in DOMAIN meta THEN meta[trackKey] ELSE EmptyObject,
                    updates)
        ELSE meta[k]]

\* this.tracks.findIndex(t => t.artist === artist && ...), 1-based, 0 for -1.
findIndex(trks, artist, album, track) ==
    LET hit(i) == /\ trks[i].artist = artist
                  /\ trks[i].album = album
                  /\ trks[i].track = track
    IN  IF \E i \in 1..Len(trks) : hit(i)
        THEN CHOOSE i \in 1..Len(trks) : hit(i) /\ \A j \in 1..(i - 1) : ~hit(j)
        ELSE 0

\* An update that pushes the changed record instead of assigning to it.
UpdatedTracksPush(trks, artist, album, track, updates) ==
    LET trackIndex == findIndex(trks, artist, album, track) IN
    IF trackIndex # 0
    THEN Append(trks, Spread(trks[trackIndex], updates))
    ELSE trks

\* if (trackIndex !== -1) Object.assign(this.tracks[trackIndex], updates)
UpdatedTracks(trks, artist, album, track, updates) ==
    LET trackIndex == findIndex(trks, artist, album, track) IN
    IF trackIndex # 0
    THEN [trks EXCEPT ![trackIndex] = Spread(trks[trackIndex], updates)]
    ELSE trks

----------------------------------------------------------------------------
(* The inputs the calls are made with. *)

\* All sequences over set of length at most n.
SeqUpTo(set, n) == UNION {[1..k -> set] : k \in 0..n}

\* The cells joined by commas: one line of CSV text.
RECURSIVE JoinCells(_)
JoinCells(cells) ==
    IF Len(cells) = 0 THEN << >>
    ELSE IF Len(cells) = 1 THEN cells[1]
    ELSE cells[1] \o <<",">> \o JoinCells(Tail(cells))

\* The lines joined by line ends: the text of a file.
RECURSIVE JoinLines(_)
JoinLines(lines) ==
    IF Len(lines) = 0 THEN << >>
    ELSE IF Len(lines) = 1 THEN lines[1]
    ELSE lines[1] \o <<"\n">> \o JoinLines(Tail(lines))

HeaderCount == JoinCells(<<<<" ", "Artist", " ">>, S("Album"), S("Track"), <<" ", "Count">>>>)
HeaderNoCount == JoinCells(<<S("Artist"), S("Album"), S("Track"), <<"UTC", " ", "Time">>>>)
HeaderNoArtist == JoinCells(<<S("Album"), S("Track"), S("Count"), S("Genre")>>)

Headers == {HeaderCount, HeaderNoCount, HeaderNoArtist}

LineT1 == JoinCells(<<S("A"), S("X"), S("T1"), S("3")>>)
LineT2 == JoinCells(<<<<" ", "A">>, S("X"), S("T2"), <<"5", " ">>>>)
LineNoArtistNoCount == JoinCells(<<<< >>, S("X"), S("T1"), << >>>>)
LineCount3x == JoinCells(<<S("A"), S("X"), S("T3"), <<"3", "x">>>>)
LineCountX == JoinCells(<<S("A"), S("X"), S("T1"), S("x")>>)
LineShort == JoinCells(<<S("A"), S("X"), S("T1")>>)
LineBlank == <<" ">>

DataLines ==
    {LineT1, LineT2, LineNoArtistNoCount, LineCount3x, LineCountX, LineShort, LineBlank}

\* The texts parseCSV is given in the study of parsing.
Texts ==
    {JoinLines(<<h>> \o rows) : h \in Headers, rows \in SeqUpTo(DataLines, MaxRows)}
        \cup {<< >>, <<" ", "\n">>}

\* The texts loaded in the study of the updates.
SampleTexts ==
    {JoinLines(<<HeaderCount, LineT1, LineT1>>),
     JoinLines(<<HeaderCount, LineT1, LineT2>>),
     JoinLines(<<HeaderCount, LineT2, LineCountX>>)}

\* Rows as Papa Parse yields them with header: true and both transforms.
PapaRow(time, artist, track) ==
    [utc_time |-> time, artist |-> artist, album |-> S("X"), track |-> track]

\* Timestamps, character by character: a Friday afternoon, a Monday morning.
Stamp1430 ==
    <<"2", "0", "2", "4", "-", "0", "3", "-", "1", "5", " ",
      "1", "4", ":", "3", "0", ":", "0", "0">>
Stamp1434 ==
    <<"2", "0", "2", "4", "-", "0", "3", "-", "1", "5", " ",
      "1", "4", ":", "3", "4", ":", "1", "9">>
Stamp0900 ==
    <<"2", "0", "2", "4", "-", "0", "4", "-", "0", "1", " ",
      "0", "9", ":", "0", "0", ":", "0", "0">>

RowT1 == PapaRow(Stamp1430, S("A"), S("T1"))
RowT2 == PapaRow(Stamp1434, S("A"), S("T2"))
RowNoArtistColumn == [utc_time |-> Stamp1430, album |-> S("X"), track |-> S("T1")]
RowNoTimeColumn == [artist |-> S("A"), album |-> S("X"), track |-> S("T1")]
RowOwnDuration ==
    [utc_time |-> Stamp1430, artist |-> S("A"),
     album |-> S("X"), track |-> S("T1"), duration |-> <<"2", "5", "9">>]

PapaRows == {RowT1, RowT2, RowNoArtistColumn, RowNoTimeColumn, RowOwnDuration}

\* Without a parse error every row has the columns of the header.
SameColumns(data) == \A i, j \in 1..Len(data) : DOMAIN data[i] = DOMAIN data[j]

NoResults == [kind |-> "none", errors |-> << >>, data |-> << >>]

Results ==
    {[kind |-> "complete", errors |-> << >>, data |-> d] :
        d \in {x \in SeqUpTo(PapaRows, MaxRows) : SameColumns(x)}}
    \cup {[kind |-> "complete", errors |-> <<"TooFewFields">>, data |-> d] :
        d \in SeqUpTo(PapaRows, MaxRows)}
    \cup {[kind |-> "error", errors |-> << >>, data |-> << >>]}

SampleResults ==
    {[kind |-> "complete", errors |-> << >>, data |-> <<RowT1, RowT1>>],
     [kind |-> "complete", errors |-> << >>, data |-> <<RowT1, RowT2>>],
     [kind |-> "complete", errors |-> <<"TooFewFields">>, data |-> <<RowT2>>]}

\* Durations in seconds, digit by digit.
D120 == <<"1", "2", "0">>
D200 == <<"2", "0", "0">>

\* The identities and the fields the update operations are called with.
Identities == {<<S("A"), S("X"), S("T1")>>, <<S("A"), S("X"), S("T2")>>}

UpdatesPool ==
    {[duration |-> D120],
     [genre |-> S("Rock")],
     [duration |-> D200, genre |-> S("Rock")]}

DurationPool == {D120}

\* What localStorage holds when the engine is constructed.
InitialStores ==
    {EmptyObject,
     [n \in {"trackMetadata"} |->
        JSONstringify([k \in {createTrackKey(S("A"), S("X"), S("T1"))} |->
                          [duration |-> D200]])]}

----------------------------------------------------------------------------
(* The state machine. *)

QuotaExceeded == [name |-> "QuotaExceededError", message |-> MsgQuota]

\* A CSV file as Papa Parse reads and writes it: the names of its header
\* line and the cells of its data lines.  The empty text has neither.
EmptyTable == [fields |-> << >>, rows |-> << >>]

\* No analyze call has returned yet.
NoStatistics == [none |-> TRUE]

\* No second engine has been constructed.
NoEngine == [constructed |-> FALSE]

\* setCurrentSong(null)
NoSong == [none |-> TRUE]

Init ==
    /\ variant \in {"manual", "papa"}
    /\ localStorage \in InitialStores
    /\ metadata = Constructor(localStorage)
    /\ tracks = << >>
    /\ originalData = << >>
    /\ call = [op |-> "constructor", id |-> << >>, updates |-> EmptyObject,
               error |-> NoError, repeat |-> FALSE]
    /\ input = [text |-> << >>, results |-> NoResults]
    /\ writeFailures = 0
    /\ loaded = FALSE
    /\ csv = EmptyTable
    /\ statistics = NoStatistics
    /\ second = NoEngine
    /\ writer = "none"
    /\ loads = << >>
    /\ currentSong = NoSong
    /\ showDurationInput = FALSE

\* parseCSV(file) of musicAnalyzer.ts, text being the content of the file.
ParseCSV(text) ==
    /\ variant = "manual"
    /\ LET r == ParseText(text, tracks) IN
        /\ tracks' = r.tracks
        /\ call' = [op |-> "parseCSV", id |-> << >>, updates |-> EmptyObject,
                    error |-> r.error, repeat |-> FALSE]
        /\ loaded' = (loaded \/ r.error = NoError)
    /\ input' = [text |-> text, results |-> NoResults]
    /\ UNCHANGED <<variant, originalData, metadata, localStorage, writeFailures,
                   csv, statistics, writer, beside>>

\* parseCSV(file) of part_001, results being what Papa Parse made of the file.
ParseCSVPapa(results) ==
    /\ variant = "papa"
    /\ LET r == ParseResults(results, tracks, originalData, metadata) IN
        /\ tracks' = r.tracks
        /\ originalData' = r.originalData
        /\ call' = [op |-> "parseCSV", id |-> << >>, updates |-> EmptyObject,
                    error |-> r.error, repeat |-> FALSE]
        /\ loaded' = (loaded \/ r.error = NoError)
    /\ input' = [text |-> << >>, results |-> results]
    /\ UNCHANGED <<variant, metadata, localStorage, writeFailures, csv, statistics,
                   writer, beside>>

\* An update that saves first: when setItem throws, nothing in memory has
\* been changed yet.
UpdateSaveFirst(op, id, updates, written) ==
    /\ written \/ writeFailures < MaxWriteFailures
    /\ IF written
       THEN /\ metadata' = MergedMetadata(metadata, createTrackKey(id[1], id[2], id[3]), updates)
            /\ tracks' = UpdatedTracks(tracks, id[1], id[2], id[3], updates)
            /\ localStorage' = saveMetadata(localStorage, metadata')
            /\ UNCHANGED writeFailures
       ELSE /\ UNCHANGED <<metadata, tracks, localStorage>>
            /\ writeFailures' = writeFailures + 1
    /\ LET error == IF written THEN NoError ELSE QuotaExceeded IN
       call' = [op |-> op, id |-> id, updates |-> updates, error |-> error,
                repeat |-> /\ call.op = op
                           /\ call.id = id
                           /\ call.updates = updates
                           /\ call.error = error]
    /\ UNCHANGED <<variant, originalData, input, loaded, csv, statistics, beside>>
    /\ writer' = IF written THEN "first" ELSE writer

\* The body shared by updateTrackMetadata and updateTrackDuration: the
\* overlay entry is merged, the record is assigned, and saveMetadata runs
\* last; written tells whether its setItem returned or threw.
Update(op, id, updates, written) ==
    /\ written \/ writeFailures < MaxWriteFailures
    /\ metadata' = MergedMetadata(metadata, createTrackKey(id[1], id[2], id[3]), updates)
    /\ tracks' = UpdatedTracks(tracks, id[1], id[2], id[3], updates)
    /\ IF written
       THEN /\ localStorage' = saveMetadata(localStorage, metadata')
            /\ UNCHANGED writeFailures
       ELSE /\ UNCHANGED localStorage
            /\ writeFailures' = writeFailures + 1
    /\ LET error == IF written THEN NoError ELSE QuotaExceeded IN
       call' = [op |-> op, id |-> id, updates |-> updates, error |-> error,
                repeat |-> /\ call.op = op
                           /\ call.id = id
                           /\ call.updates = updates
                           /\ call.error = error]
    /\ UNCHANGED <<variant, originalData, input, loaded, csv, statistics, beside>>
    /\ writer' = IF written THEN "first" ELSE writer

updateTrackMetadata ==
    \E id \in Identities, updates \in UpdatesPool, written \in BOOLEAN :
        Update("updateTrackMetadata", id, updates, written)

updateTrackDuration ==
    \E id \in Identities, duration \in DurationPool, written \in BOOLEAN :
        Update("updateTrackDuration", id, [duration |-> duration], written)

LoadSample == \E text \in SampleTexts : ParseCSV(text)

LoadSamplePapa == \E results \in SampleResults : ParseCSVPapa(results)

Next == LoadSample \/ LoadSamplePapa \/ updateTrackMetadata \/ updateTrackDuration

\* One engine: constructed, then loads and updates in any order.
Spec == Init /\ [][Next]_vars

ParseAnyText == \E text \in Texts : ParseCSV(text)

ParseAnyResults == \E results \in Results : ParseCSVPapa(results)

\* The engine is as constructed or has been given sample files only.
AfterSamples ==
    /\ input.text \in SampleTexts \cup {<< >>}
    /\ input.results \in SampleResults \cup {NoResults}

NextParse ==
    \/ LoadSample
    \/ LoadSamplePapa
    \/ AfterSamples /\ ParseAnyText
    \/ AfterSamples /\ ParseAnyResults

\* One engine on which, after any number of sample files, any file of the
\* pools is parsed.
SpecParse == Init /\ [][NextParse]_vars

----------------------------------------------------------------------------
(* saveToCSV and the file it emits. *)

\* The properties of a row of originalData in the order they are created:
\* those of a raw row, then those saveToCSV sets.
SavedFields ==
    <<"uts", "utc_time", "artist", "artist_mbid", "album", "album_mbid",
      "track", "track_mbid", "duration", "genre", "feat", "prod", "label">>

\* { ...row, duration: track.duration, genre: track.genre, ... }
SavedRow(row, track) ==
    Spread(row, [duration |-> Get(track, "duration"),
                 genre    |-> Get(track, "genre"),
                 feat     |-> Get(track, "feat"),
                 prod     |-> Get(track, "prod"),
                 label    |-> Get(track, "label")])

\* The rows every one of which takes the fields of the first record.
SavedRowsOfFirst(original, trks) ==
    [index \in 1..Len(original) |-> SavedRow(original[index], trks[1])]

\* this.originalData.map((row, index) => ({ ...row, ...this.tracks[index] fields }))
SavedRows(original, trks) ==
    [index \in 1..Len(original) |-> SavedRow(original[index], trks[index])]

\* Papa.unparse(data) for an array of objects: the columns are the
\* properties of the first object, undefined is written as the empty cell.
unparse(data) ==
    IF Len(data) = 0 THEN EmptyTable
    ELSE LET fields == SelectSeq(SavedFields, LAMBDA f : f \in DOMAIN data[1]) IN
         [fields |-> fields,
          rows |-> [i \in 1..Len(data) |->
                      [j \in 1..Len(fields) |-> OrElse(Get(data[i], fields[j]), << >>)]]]

\* The text of a table: Papa.unparse joins the lines with "\r\n".
RECURSIVE JoinCRLF(_)
JoinCRLF(lines) ==
    IF Len(lines) = 0 THEN << >>
    ELSE IF Len(lines) = 1 THEN lines[1]
    ELSE lines[1] \o <<"\r", "\n">> \o JoinCRLF(Tail(lines))

TableText(table) ==
    IF table = EmptyTable THEN << >>
    ELSE JoinCRLF(<<JoinCells([j \in 1..Len(table.fields) |-> S(table.fields[j])])>>
                  \o [i \in 1..Len(table.rows) |-> JoinCells(table.rows[i])])

\* What Papa Parse (header: true, both transforms trimming) makes of the
\* file of a table; of the empty text it reports that no delimiter was found.
PapaParse(table) ==
    IF table = EmptyTable
    THEN [kind |-> "complete", errors |-> <<"UndetectableDelimiter">>, data |-> << >>]
    ELSE [kind |-> "complete", errors |-> << >>,
          data |-> [i \in 1..Len(table.rows) |->
                      [f \in {table.fields[j] : j \in 1..Len(table.fields)} |->
                          Trim(table.rows[i][IndexOf(table.fields, f)])]]]

CannotReadUndefined ==
    [name |-> "TypeError", message |-> "Cannot read properties of undefined"]

\* saveToCSV(): the rows of originalData take the five fields of the record
\* at their index and are handed to Papa.unparse; a row without a record at
\* its index makes the map throw before anything is assigned.
saveToCSV ==
    /\ IF Len(originalData) <= Len(tracks)
       THEN /\ originalData' = SavedRows(originalData, tracks)
            /\ csv' = unparse(originalData')
            /\ call' = [op |-> "saveToCSV", id |-> << >>, updates |-> EmptyObject,
                        error |-> NoError, repeat |-> FALSE]
       ELSE /\ UNCHANGED <<originalData, csv>>
            /\ call' = [op |-> "saveToCSV", id |-> << >>, updates |-> EmptyObject,
                        error |-> CannotReadUndefined, repeat |-> FALSE]
    /\ UNCHANGED <<variant, tracks, metadata, localStorage, input, writeFailures,
                   loaded, statistics, writer, beside>>

\* The file saveToCSV has just emitted is given back to parseCSV.
parseSaved ==
    /\ call.op = "saveToCSV"
    /\ call.error = NoError
    /\ \/ ParseCSV(TableText(csv))
       \/ ParseCSVPapa(PapaParse(csv))

\* An enrichment as the pages make it: one update that is written.
Enrich ==
    \E id \in Identities, updates \in UpdatesPool :
        Update("updateTrackMetadata", id, updates, TRUE)

NextExport == LoadSample \/ LoadSamplePapa \/ Enrich \/ saveToCSV

\* One engine: loads, enrichments and exports in any order.
SpecExport == Init /\ [][NextExport]_vars

NextRoundTrip ==
    \/ call.op = "constructor" /\ ParseAnyText
    \/ call.op = "constructor" /\ ParseAnyResults
    \/ call.op = "parseCSV" /\ saveToCSV
    \/ parseSaved

\* One engine: any file of the pools is parsed, the records are exported,
\* and the exported file is parsed.
SpecRoundTrip == Init /\ [][NextRoundTrip]_vars

----------------------------------------------------------------------------
(* analyze and what it is made of. *)

\* new Date(s) for the strings of the form YYYY-MM-DD HH:mm:ss, read as
\* local time; undefined and every other string of the pools give an
\* Invalid Date.
InvalidDate == [valid |-> FALSE, year |-> 0, month |-> 0, day |-> 0, hours |-> 0]

TwoDigits(s, i) == DigitValue(s[i]) * 10 + DigitValue(s[i + 1])

DateShape(s) ==
    /\ Len(s) = 19
    /\ \A i \in 1..19 :
          IF i \in {5, 8} THEN s[i] = "-"
          ELSE IF i = 11 THEN s[i] = " "
          ELSE IF i \in {14, 17} THEN s[i] = ":"
          ELSE s[i] \in Digit

LeapYear(y) == (y % 4 = 0 /\ y % 100 # 0) \/ y % 400 = 0

DaysInMonth(y, m) ==
    IF m = 2 THEN (IF LeapYear(y) THEN 29 ELSE 28)
    ELSE IF m \in {4, 6, 9, 11} THEN 30 ELSE 31

NewDate(s) ==
    IF ~DateShape(s) THEN InvalidDate
    ELSE LET year == TwoDigits(s, 1) * 100 + TwoDigits(s, 3)
             month == TwoDigits(s, 6)
             day == TwoDigits(s, 9)
         IN  IF /\ month \in 1..12
                /\ day \in 1..DaysInMonth(year, month)
                /\ TwoDigits(s, 12) <= 23
                /\ TwoDigits(s, 15) <= 59
                /\ TwoDigits(s, 18) <= 59
             THEN [valid |-> TRUE, year |-> year, month |-> month, day |-> day,
                   hours |-> TwoDigits(s, 12)]
             ELSE InvalidDate

NaN == <<"NaN">>
InvalidDateText == <<"Invalid", " ", "Date">>

DigitChar(d) == <<"0", "1", "2", "3", "4", "5", "6", "7", "8", "9">>[d + 1]

\* String(n) for 0 <= n <= 99.
NumberText(n) ==
    IF n < 10 THEN <<DigitChar(n)>> ELSE <<DigitChar(n \div 10), DigitChar(n % 10)>>

\* String(date.getHours())
HoursText(date) == IF date.valid THEN NumberText(date.hours) ELSE NaN

WeekdayNames ==
    <<S("Sunday"), S("Monday"), S("Tuesday"), S("Wednesday"), S("Thursday"),
      S("Friday"), S("Saturday")>>

MonthNames ==
    <<S("January"), S("February"), S("March"), S("April"), S("May"), S("June"),
      S("July"), S("August"), S("September"), S("October"), S("November"),
      S("December")>>

\* The day of the week of a date, 0 for Sunday.
DayOfWeek(y, m, d) ==
    LET t == <<0, 3, 2, 5, 0, 3, 5, 1, 4, 6, 2, 4>>
        yy == IF m < 3 THEN y - 1 ELSE y
    IN  (yy + (yy \div 4) - (yy \div 100) + (yy \div 400) + t[m] + d) % 7

\* date.toLocaleDateString('en-US', { weekday: 'long' })
WeekdayText(date) ==
    IF date.valid THEN WeekdayNames[DayOfWeek(date.year, date.month, date.day) + 1]
    ELSE InvalidDateText

\* date.toLocaleDateString('en-US', { month: 'long' })
MonthText(date) == IF date.valid THEN MonthNames[date.month] ELSE InvalidDateText

\* An object used as a map is the sequence of its properties in the order
\* they were created, each a record with a name.
HasProperty(obj, key) == \E i \in 1..Len(obj) : obj[i].name = key

Property(obj, key) == obj[CHOOSE i \in 1..Len(obj) : obj[i].name = key]

\* A property name that is an array index: a canonical non-negative integer.
IsArrayIndex(key) ==
    /\ key # << >>
    /\ Len(key) <= 9
    /\ \A i \in 1..Len(key) : key[i] \in Digit
    /\ Len(key) = 1 \/ key[1] # "0"

IndexValue(key) == DigitsPrefix(key, 0, 0).value

RECURSIVE AscendingIndices(_)
AscendingIndices(props) ==
    IF props = << >> THEN << >>
    ELSE LET m == CHOOSE i \in 1..Len(props) : \A j \in 1..Len(props) :
                      IndexValue(props[i].name) <= IndexValue(props[j].name)
         IN  <<props[m]>> \o
             AscendingIndices([i \in 1..(Len(props) - 1) |->
                                  IF i < m THEN props[i] ELSE props[i + 1]])

\* Object.entries(obj): the array-index names first, in ascending numeric
\* order, then the other names in the order they were created.
ObjectEntries(obj) ==
    AscendingIndices(SelectSeq(obj, LAMBDA p : IsArrayIndex(p.name)))
    \o SelectSeq(obj, LAMBDA p : ~IsArrayIndex(p.name))

\* acc[key] = (acc[key] || 0) + 1
Counted(acc, key) ==
    IF HasProperty(acc, key)
    THEN [i \in 1..Len(acc) |->
             IF acc[i].name = key THEN [acc[i] EXCEPT !.count = @ + 1] ELSE acc[i]]
    ELSE Append(acc, [name |-> key, count |-> 1])

\* countOccurrences(items), the items already turned into strings.
RECURSIVE countOccurrences(_)
countOccurrences(items) ==
    IF items = << >> THEN << >>
    ELSE Counted(countOccurrences(SubSeq(items, 1, Len(items) - 1)), items[Len(items)])

\* items.sort((a, b) => b.count - a.count): descending by count, and, the
\* sort being stable, items of equal count in the order they had.
RECURSIVE sortByCount(_)
sortByCount(items) ==
    IF items = << >> THEN << >>
    ELSE LET m == CHOOSE i \in 1..Len(items) :
                      /\ \A j \in 1..Len(items) : items[i].count >= items[j].count
                      /\ \A j \in 1..(i - 1) : items[j].count < items[i].count
         IN  <<items[m]>> \o
             sortByCount([i \in 1..(Len(items) - 1) |->
                             IF i < m THEN items[i] ELSE items[i + 1]])

\* array.slice(0, n)
Slice(items, n) == SubSeq(items, 1, IF Len(items) < n THEN Len(items) ELSE n)

\* getTopItems(items) with n = Infinity
getTopItems(items) ==
    sortByCount(SelectSeq(ObjectEntries(items), LAMBDA p : Trim(p.name) # << >>))

\* trackCounts after the forEach of getTopTracks: one property per key, made
\* from the first record of the key, counting the records of the key.
RECURSIVE trackCounts(_)
trackCounts(trks) ==
    IF trks = << >> THEN << >>
    ELSE LET acc == trackCounts(SubSeq(trks, 1, Len(trks) - 1))
             track == trks[Len(trks)]
             key == createTrackKey(track.artist, track.album, track.track)
         IN  IF HasProperty(acc, key)
             THEN [i \in 1..Len(acc) |->
                      IF acc[i].name = key THEN [acc[i] EXCEPT !.count = @ + 1]
                      ELSE acc[i]]
             ELSE Append(acc, [name |-> key, count |-> 1,
                               artist |-> track.artist, album |-> track.album,
                               duration |-> Get(track, "duration"),
                               genre |-> Get(track, "genre")])

\* getTopTracks() with n = Infinity
getTopTracks(trks) ==
    LET entries == ObjectEntries(trackCounts(
                       SelectSeq(trks, LAMBDA track : Trim(track.track) # << >>)))
    IN  sortByCount([i \in 1..Len(entries) |->
                        [entries[i] EXCEPT !.name = At(Split(@, "|"), 3)]])

getListeningPatternsByDay(days) ==
    LET entries == ObjectEntries(countOccurrences(days)) IN
    Slice(sortByCount([i \in 1..Len(entries) |->
                          [day |-> entries[i].name, count |-> entries[i].count]]), 7)

getListeningPatternsByMonth(months) ==
    LET entries == ObjectEntries(countOccurrences(months)) IN
    Slice(sortByCount([i \in 1..Len(entries) |->
                          [month |-> entries[i].name, count |-> entries[i].count]]), 12)

\* One entry per property of hourCounts, in the order of Object.entries.
hourlyPatternsOfEntries(hourCounts) ==
    LET entries == ObjectEntries(hourCounts) IN
    [i \in 1..Len(entries) |->
        [hour |-> IndexValue(entries[i].name), count |-> entries[i].count]]

\* Array.from({ length: 24 }, (_, i) => ({ hour: i, count: hourCounts[i] || 0 }))
hourlyPatterns(hourCounts) ==
    [n \in 1..24 |->
        [hour |-> n - 1,
         count |-> IF HasProperty(hourCounts, NumberText(n - 1))
                   THEN Property(hourCounts, NumberText(n - 1)).count ELSE 0]]

\* tracksWithDuration.reduce((sum, track) => sum + (parseInt(track.duration) || 0), 0)
RECURSIVE totalDuration(_)
totalDuration(trks) ==
    IF trks = << >> THEN 0
    ELSE LET p == ParseInt(Get(trks[Len(trks)], "duration")) IN
         totalDuration(SubSeq(trks, 1, Len(trks) - 1)) + (IF p.nan THEN 0 ELSE p.value)

\* A number that need not be whole: num / den.
Ratio(num, den) == [num |-> num, den |-> den]

\* analyze(): the Statistics of a record sequence.
Statistics(trks) ==
    LET timestamps == [i \in 1..Len(trks) |-> NewDate(Get(trks[i], "utc_time"))]
        hours == [i \in 1..Len(trks) |-> HoursText(timestamps[i])]
        days == [i \in 1..Len(trks) |-> WeekdayText(timestamps[i])]
        months == [i \in 1..Len(trks) |-> MonthText(timestamps[i])]
        tracksWithDuration == SelectSeq(trks, LAMBDA track : Get(track, "duration") # << >>)
        total == totalDuration(tracksWithDuration)
        averageDuration == IF Len(tracksWithDuration) > 0
                           THEN Ratio(total, Len(tracksWithDuration))
                           ELSE Ratio(0, 1)
        artists == SelectSeq(trks, LAMBDA t : Trim(t.artist) # << >>)
        albums == SelectSeq(trks, LAMBDA t : Trim(t.album) # << >>)
        artistCounts == countOccurrences([i \in 1..Len(artists) |-> artists[i].artist])
        albumCounts == countOccurrences([i \in 1..Len(albums) |-> albums[i].album])
    IN  [totalListeningTime |-> Ratio(total, 3600),
         averageTrackDuration |-> Ratio(averageDuration.num, averageDuration.den * 60),
         topArtists |-> getTopItems(artistCounts),
         topAlbums |-> getTopItems(albumCounts),
         topTracks |-> getTopTracks(trks),
         listeningPatterns |->
             [byHour |-> hourlyPatterns(countOccurrences(hours)),
              byDay |-> getListeningPatternsByDay(days),
              byMonth |-> getListeningPatternsByMonth(months)]]

\* An analyze that drops the records without track from this.tracks itself.
analyzeInPlace ==
    /\ tracks' = SelectSeq(tracks, LAMBDA track : Trim(track.track) # << >>)
    /\ statistics' = Statistics(tracks')
    /\ call' = [op |-> "analyze", id |-> << >>, updates |-> EmptyObject,
                error |-> NoError, repeat |-> call.op = "analyze"]
    /\ UNCHANGED <<variant, originalData, metadata, localStorage, input,
                   writeFailures, loaded, csv, writer, beside>>

\* analyze(): every array it filters, maps or sorts is a new one, so only
\* the returned snapshot is new; repeat tells that the call before was
\* analyze too.
analyze ==
    /\ statistics' = Statistics(tracks)
    /\ call' = [op |-> "analyze", id |-> << >>, updates |-> EmptyObject,
                error |-> NoError, repeat |-> call.op = "analyze"]
    /\ UNCHANGED <<variant, tracks, originalData, metadata, localStorage, input,
                   writeFailures, loaded, csv, writer, beside>>

\* The files analyzed: plays of two tracks of one artist, plays without
\* artist, a play without track; an album and an artist named by numbers; a
\* track with "|" in its title; durations and timestamps present, absent
\* and unreadable.
HeaderPlays ==
    JoinCells(<<S("Artist"), S("Album"), S("Track"), S("Count"), S("Duration"),
                <<"UTC", " ", "Time">>>>)

PlayT1 == JoinCells(<<S("A"), S("X"), S("T1"), S("3"), << >>, Stamp1430>>)
PlayT2 == JoinCells(<<S("A"), S("X"), S("T2"), S("5"), D200, <<"n", "/", "a">>>>)
PlayNoArtist == JoinCells(<<<< >>, <<"2", "1">>, S("T3"), S("1"), << >>, << >>>>)
PlayBar == JoinCells(<<<< >>, S("X"), <<"T", "|", "1">>, S("1"), << >>, << >>>>)
PlayNoTrack ==
    JoinCells(<<<<"1", "9", "8", "9">>, S("Y"), << >>, S("2"), <<"1", "8", "0">>, Stamp0900>>)

PlayLines == {PlayT1, PlayT2, PlayNoArtist, PlayBar, PlayNoTrack}

AnalysisTexts == {JoinLines(<<HeaderPlays>> \o d) : d \in SeqUpTo(PlayLines, MaxRows)}

PlayRows ==
    {RowT1, RowT2,
     [utc_time |-> << >>, artist |-> << >>, album |-> <<"2", "1">>, track |-> S("T3")],
     [utc_time |-> << >>, artist |-> << >>, album |-> S("X"), track |-> <<"T", "|", "1">>],
     [utc_time |-> Stamp0900, artist |-> <<"1", "9", "8", "9">>, album |-> S("Y"),
      track |-> << >>]}

AnalysisResults ==
    {[kind |-> "complete", errors |-> << >>, data |-> d] : d \in SeqUpTo(PlayRows, MaxRows)}

LoadPlays == \E text \in AnalysisTexts : ParseCSV(text)

LoadPlaysPapa == \E results \in AnalysisResults : ParseCSVPapa(results)

NextAnalyze ==
    \/ call.op = "constructor" /\ LoadPlays
    \/ call.op = "constructor" /\ LoadPlaysPapa
    \/ updateTrackDuration
    \/ analyze

\* One engine: a file is loaded, then durations are entered and the
\* statistics are computed in any order.
SpecAnalyze == Init /\ [][NextAnalyze]_vars

\* The files whose records are grouped: two plays of one track, the second
\* with a duration, the same title on another album, and two plays whose
\* fields hold "|".
HeaderGroups ==
    JoinCells(<<S("Artist"), S("Album"), S("Track"), S("Count"), S("Duration")>>)

GroupT1 == JoinCells(<<S("A"), S("X"), S("T1"), S("1"), << >>>>)
GroupT1Timed == JoinCells(<<S("A"), S("X"), S("T1"), S("1"), D200>>)
GroupOtherAlbum == JoinCells(<<S("A"), S("Y"), S("T1"), S("1"), << >>>>)
GroupBarTrack == JoinCells(<<<< >>, S("X"), <<"T", "|", "1">>, S("1"), << >>>>)
GroupBarAlbum == JoinCells(<<<< >>, <<"X", "|", "T">>, S("1"), S("1"), << >>>>)

GroupLines == {GroupT1, GroupT1Timed, GroupOtherAlbum, GroupBarTrack, GroupBarAlbum}

GroupTexts == {JoinLines(<<HeaderGroups>> \o d) : d \in SeqUpTo(GroupLines, MaxRows)}

GroupRows ==
    {RowT1,
     [utc_time |-> Stamp1430, artist |-> S("A"), album |-> S("Y"), track |-> S("T1")],
     [utc_time |-> Stamp1430, artist |-> << >>, album |-> S("X"), track |-> <<"T", "|", "1">>],
     [utc_time |-> Stamp1430, artist |-> << >>, album |-> <<"X", "|", "T">>, track |-> S("1")]}

GroupResults ==
    {[kind |-> "complete", errors |-> << >>, data |-> d] : d \in SeqUpTo(GroupRows, MaxRows)}

LoadGroups == \E text \in GroupTexts : ParseCSV(text)

LoadGroupsPapa == \E results \in GroupResults : ParseCSVPapa(results)

NextGroups ==
    \/ call.op = "constructor" /\ LoadGroups
    \/ call.op = "constructor" /\ LoadGroupsPapa
    \/ analyze

\* One engine: a file of grouped plays is loaded and analyzed.
SpecGroups == Init /\ [][NextGroups]_vars


----------------------------------------------------------------------------
(* A session on one engine: files, enrichments, analyses and exports. *)

\* The track the Home page prompts for is enriched: its duration or its
\* genre is given in one update.
EnrichTrack ==
    \E updates \in {[duration |-> D120], [genre |-> S("Rock")]}, written \in BOOLEAN :
        Update("updateTrackMetadata", <<S("A"), S("X"), S("T1")>>, updates, written)

NextSession == LoadSample \/ LoadSamplePapa \/ EnrichTrack \/ analyze \/ saveToCSV

\* One engine: loads, enrichments, analyses and exports in any order.
SpecSession == Init /\ [][NextSession]_vars

----------------------------------------------------------------------------
(* Updates on an engine that holds grouped plays. *)

\* The identities of the grouped plays: one without '|' and two with it.
GroupIdentities ==
    {<<S("A"), S("X"), S("T1")>>,
     <<<< >>, S("X"), <<"T", "|", "1">>>>,
     <<<< >>, <<"X", "|", "T">>, S("1")>>}

UpdateGroup ==
    \E id \in GroupIdentities, updates \in {[duration |-> D120], [genre |-> S("Rock")]},
       written \in BOOLEAN :
        Update("updateTrackMetadata", id, updates, written)

NextFrame ==
    \/ call.op = "constructor" /\ LoadGroups
    \/ call.op = "constructor" /\ LoadGroupsPapa
    \/ UpdateGroup

\* One engine: a file of grouped plays is loaded, then its tracks are
\* updated in any order.
SpecFrame == Init /\ [][NextFrame]_vars

----------------------------------------------------------------------------
(* Two engines on one localStorage: each page constructs its own. *)

\* new MusicAnalyzer() on another page: the second engine loads its overlay
\* from the item as it is now and has no records yet.
ConstructSecond ==
    /\ ~second.constructed
    /\ second' = [constructed |-> TRUE, metadata |-> Constructor(localStorage),
                  tracks |-> << >>, originalData |-> << >>]
    /\ UNCHANGED <<variant, tracks, originalData, metadata, localStorage, call, input,
                   writeFailures, loaded, csv, statistics, writer, loads,
                   currentSong, showDurationInput>>

\* parseCSV(file) on the second engine.
LoadSecond ==
    /\ second.constructed
    /\ second.tracks = << >>
    /\ \/ /\ variant = "manual"
          /\ \E text \in SampleTexts :
                second' = [second EXCEPT !.tracks = ParseText(text, second.tracks).tracks]
       \/ /\ variant = "papa"
          /\ \E results \in SampleResults :
                LET r == ParseResults(results, second.tracks, second.originalData,
                                      second.metadata)
                IN  second' = [second EXCEPT !.tracks = r.tracks,
                                             !.originalData = r.originalData]
    /\ UNCHANGED <<variant, tracks, originalData, metadata, localStorage, call, input,
                   writeFailures, loaded, csv, statistics, writer, loads,
                   currentSong, showDurationInput>>

\* updateTrackMetadata on the second engine, its setItem returning.
UpdateSecond ==
    /\ second.constructed
    /\ \E id \in Identities, updates \in {[duration |-> D120], [genre |-> S("Rock")]} :
        /\ second' = [second EXCEPT
                        !.metadata = MergedMetadata(second.metadata,
                                        createTrackKey(id[1], id[2], id[3]), updates),
                        !.tracks = UpdatedTracks(second.tracks, id[1], id[2], id[3], updates)]
        /\ localStorage' = saveMetadata(localStorage, second'.metadata)
    /\ writer' = "second"
    /\ UNCHANGED <<variant, tracks, originalData, metadata, call, input,
                   writeFailures, loaded, csv, statistics, loads,
                   currentSong, showDurationInput>>

\* updateTrackMetadata on the first engine, its setItem returning.
UpdateFirst ==
    \E id \in Identities, updates \in {[duration |-> D120], [genre |-> S("Rock")]} :
        Update("updateTrackMetadata", id, updates, TRUE)

NextEngines ==
    \/ call.op = "constructor" /\ LoadSample
    \/ call.op = "constructor" /\ LoadSamplePapa
    \/ UpdateFirst
    \/ ConstructSecond
    \/ LoadSecond
    \/ UpdateSecond

\* Two engines: each is constructed, may load a file and makes updates, the
\* calls of the two in any order.
SpecEngines == Init /\ [][NextEngines]_vars

----------------------------------------------------------------------------
(* Loads that overlap: parseCSV awaits the file, other calls run meanwhile. *)

\* Files that parseCSV reads to the end.
RaceTexts ==
    {JoinLines(<<HeaderCount, LineT1, LineT1>>),
     JoinLines(<<HeaderCount, LineT1, LineT2>>),
     JoinLines(<<HeaderCount, LineT2>>)}

RaceResults ==
    {[kind |-> "complete", errors |-> << >>, data |-> <<RowT1, RowT1>>],
     [kind |-> "complete", errors |-> << >>, data |-> <<RowT1, RowT2>>],
     [kind |-> "complete", errors |-> << >>, data |-> <<RowT2>>]}

\* parseCSV(file) up to its await (file.text(), or Papa Parse reading the
\* file): the call is under way and nothing of the engine has changed.
StartLoad ==
    /\ Len(loads) < MaxLoads
    /\ \/ /\ variant = "manual"
          /\ \E text \in RaceTexts :
                loads' = Append(loads, [text |-> text, results |-> NoResults,
                                        done |-> FALSE,
                                        overlaps |-> \E i \in 1..Len(loads) : ~loads[i].done])
       \/ /\ variant = "papa"
          /\ \E results \in RaceResults :
                loads' = Append(loads, [text |-> << >>, results |-> results,
                                        done |-> FALSE,
                                        overlaps |-> \E i \in 1..Len(loads) : ~loads[i].done])
    /\ UNCHANGED <<variant, tracks, originalData, metadata, localStorage, call, input,
                   writeFailures, loaded, csv, statistics, second, writer,
                   currentSong, showDurationInput>>

\* The rest of a parseCSV call under way: the text has been read (or Papa
\* Parse calls complete) and the records are replaced in one go.  The reads
\* of two files end in either order.
CompleteLoad ==
    \E i \in 1..Len(loads) :
        /\ ~loads[i].done
        /\ loads' = [loads EXCEPT ![i].done = TRUE]
        /\ IF variant = "manual"
           THEN LET r == ParseText(loads[i].text, tracks) IN
                /\ tracks' = r.tracks
                /\ call' = [op |-> "parseCSV", id |-> << >>, updates |-> EmptyObject,
                            error |-> r.error, repeat |-> FALSE]
                /\ loaded' = (loaded \/ r.error = NoError)
                /\ UNCHANGED originalData
           ELSE LET r == ParseResults(loads[i].results, tracks, originalData, metadata) IN
                /\ tracks' = r.tracks
                /\ originalData' = r.originalData
                /\ call' = [op |-> "parseCSV", id |-> << >>, updates |-> EmptyObject,
                            error |-> r.error, repeat |-> FALSE]
                /\ loaded' = (loaded \/ r.error = NoError)
        /\ input' = [text |-> loads[i].text, results |-> loads[i].results]
        /\ UNCHANGED <<variant, metadata, localStorage, writeFailures, csv, statistics,
                       second, writer, currentSong, showDurationInput>>

NextOverlap == StartLoad \/ CompleteLoad

\* One engine: loads are started and completed in any order.
SpecOverlap == Init /\ [][NextOverlap]_vars

----------------------------------------------------------------------------
(* The Home page: loading a file and the prompt for missing durations. *)

\* !x of a string-or-undefined x.
Not(x) == x \in {Undefined, << >>}

\* getNextSongWithoutDuration(stats)
getNextSongWithoutDuration(stats) ==
    LET lacking == SelectSeq(stats.topTracks, LAMBDA t : Not(Get(t, "duration"))) IN
    IF Len(lacking) = 0 THEN NoSong
    ELSE LET track == lacking[1] IN
         [artist |-> OrElse(Get(track, "artist"), << >>),
          album |-> OrElse(Get(track, "album"), << >>),
          track |-> track.name,
          duration |-> << >>,
          genre |-> Get(track, "genre")]

\* loadData(file): parseCSV, and when it resolves analyze, setStatistics and
\* the opening of the prompt on the first track without duration; when it
\* rejects only the error is shown.
loadData(text, results) ==
    LET r == IF variant = "manual" THEN ParseText(text, tracks)
             ELSE ParseResults(results, tracks, originalData, metadata)
        stats == Statistics(r.tracks)
        hasUnprocessedDurations ==
            \E i \in 1..Len(stats.topTracks) : Not(Get(stats.topTracks[i], "duration"))
    IN  /\ tracks' = r.tracks
        /\ originalData' = IF variant = "manual" THEN originalData ELSE r.originalData
        /\ loaded' = (loaded \/ r.error = NoError)
        /\ input' = [text |-> text, results |-> results]
        /\ IF r.error = NoError
           THEN /\ statistics' = stats
                /\ showDurationInput' = hasUnprocessedDurations
                /\ currentSong' = IF hasUnprocessedDurations
                                  THEN getNextSongWithoutDuration(stats)
                                  ELSE currentSong
                /\ call' = [op |-> "analyze", id |-> << >>, updates |-> EmptyObject,
                            error |-> NoError, repeat |-> FALSE]
           ELSE /\ UNCHANGED <<statistics, showDurationInput, currentSong>>
                /\ call' = [op |-> "parseCSV", id |-> << >>, updates |-> EmptyObject,
                            error |-> r.error, repeat |-> FALSE]
        /\ UNCHANGED <<variant, metadata, localStorage, writeFailures, csv,
                       second, writer, loads>>

\* handleFileUpload: a file of grouped plays is chosen.
handleFileUpload ==
    \/ variant = "manual" /\ \E text \in GroupTexts : loadData(text, NoResults)
    \/ variant = "papa" /\ \E results \in GroupResults : loadData(<< >>, results)

\* handleDurationSubmit(duration): the update of the prompted song, analyze
\* and setStatistics, saveToCSV, and the prompt moved to the next track
\* without duration or closed.  written tells whether setItem returned; when
\* it throws, or when saveToCSV throws, the handler ends there.  The form
\* that calls it is shown while showDurationInput && currentSong.
handleDurationSubmit ==
    /\ showDurationInput
    /\ currentSong # NoSong
    /\ statistics # NoStatistics
    /\ \E duration \in DurationPool, written \in BOOLEAN :
        LET updates == [duration |-> duration]
            id == <<currentSong.artist, currentSong.album, currentSong.track>>
            saved == Len(originalData) <= Len(tracks)
            error == IF ~written THEN QuotaExceeded
                     ELSE IF ~saved THEN CannotReadUndefined ELSE NoError
        IN  /\ written \/ writeFailures < MaxWriteFailures
            /\ metadata' = MergedMetadata(metadata, createTrackKey(id[1], id[2], id[3]),
                                          updates)
            /\ tracks' = UpdatedTracks(tracks, id[1], id[2], id[3], updates)
            /\ localStorage' = IF written THEN saveMetadata(localStorage, metadata')
                               ELSE localStorage
            /\ writeFailures' = IF written THEN writeFailures ELSE writeFailures + 1
            /\ writer' = IF written THEN "first" ELSE writer
            /\ statistics' = IF written THEN Statistics(tracks') ELSE statistics
            /\ IF written /\ saved
               THEN /\ originalData' = SavedRows(originalData, tracks')
                    /\ csv' = unparse(originalData')
                    /\ currentSong' = getNextSongWithoutDuration(statistics')
                    /\ showDurationInput' =
                          IF currentSong' = NoSong THEN FALSE ELSE showDurationInput
               ELSE UNCHANGED <<originalData, csv, currentSong, showDurationInput>>
            /\ call' = [op |-> IF written THEN "saveToCSV" ELSE "updateTrackMetadata",
                        id |-> IF written THEN << >> ELSE id,
                        updates |-> IF written THEN EmptyObject ELSE updates,
                        error |-> error, repeat |-> FALSE]
    /\ UNCHANGED <<variant, input, loaded, second, loads>>

NextPrompt ==
    \/ statistics = NoStatistics /\ handleFileUpload
    \/ handleDurationSubmit

\* The Home page: files are chosen until one is loaded and analyzed, then
\* durations are submitted as long as the prompt is open.
SpecPrompt == Init /\ [][NextPrompt]_vars

UpdateOps == {"updateTrackMetadata", "updateTrackDuration"}

\* The last call was an update.
Updated == call.op \in UpdateOps

\* The key of the identity the last update was called with.
CallKey == createTrackKey(call.id[1], call.id[2], call.id[3])

\* Record t has the identity the last update was called with.
Matches(t) == t.artist = call.id[1] /\ t.album = call.id[2] /\ t.track = call.id[3]

\* Object obj carries every field of the last update with its new value.
Carries(obj) == \A f \in DOMAIN call.updates : Get(obj, f) = call.updates[f]

\* The overlay the item 'trackMetadata' holds; no entry when there is no item.
StoredOverlay ==
    IF HasItem(localStorage, "trackMetadata")
    THEN JSONparse(localStorage["trackMetadata"])
    ELSE EmptyObject

\* C1: an update called a second time in a row with the same identity and
\* the same fields (and the same outcome of its write) changes nothing: the
\* overlay, the stored item and every record stay as the first call left them.
C1_UpdateIdempotent ==
    [][call'.repeat =>
        /\ metadata' = metadata
        /\ localStorage' = localStorage
        /\ tracks' = tracks]_vars

\* C1 witness: the same successful update was made twice in a row on an
\* identity that a loaded record has.
C1_Witness ==
    /\ Updated
    /\ call.repeat
    /\ call.error = NoError
    /\ \E i \in 1..Len(tracks) : Matches(tracks[i])

\* C2 (as claimed): after an update every record with the identity carries
\* the new field values.
C2_EveryMatchingRecordUpdated ==
    Updated => \A i \in 1..Len(tracks) : Matches(tracks[i]) => Carries(tracks[i])

\* C3: as long as no write has failed, the overlay in memory has no entry
\* and no field that the stored item lacks, and after an update the stored
\* item is the serialization of the whole overlay in memory.
C3_WriteThrough ==
    writeFailures = 0 =>
        /\ \A k \in DOMAIN metadata :
              /\ k \in DOMAIN StoredOverlay
              /\ \A f \in DOMAIN metadata[k] :
                    Get(StoredOverlay[k], f) = metadata[k][f]
        /\ Updated =>
              /\ HasItem(localStorage, "trackMetadata")
              /\ localStorage["trackMetadata"] = JSONstringify(metadata)

\* C3 witness: two entries in the overlay, both written, after an update.
C3_Witness ==
    /\ Updated
    /\ writeFailures = 0
    /\ Cardinality(DOMAIN metadata) = 2
    /\ localStorage["trackMetadata"] = JSONstringify(metadata)

\* C4: an update whose write throws still merges the fields into the overlay
\* entry and assigns them to the matching record; the stored item is left
\* as it was and the error reaches the caller.
C4_BestEffort ==
    [][(call'.op \in UpdateOps /\ call'.error # NoError) =>
        LET key == createTrackKey(call'.id[1], call'.id[2], call'.id[3])
            at == findIndex(tracks, call'.id[1], call'.id[2], call'.id[3])
        IN  /\ key \in DOMAIN metadata'
            /\ \A f \in DOMAIN call'.updates : Get(metadata'[key], f) = call'.updates[f]
            /\ key \in DOMAIN metadata =>
                  \A f \in DOMAIN metadata[key] \ DOMAIN call'.updates :
                      Get(metadata'[key], f) = metadata[key][f]
            /\ at # 0 =>
                  \A f \in DOMAIN call'.updates : Get(tracks'[at], f) = call'.updates[f]
            /\ localStorage' = localStorage
            /\ call'.error = QuotaExceeded]_vars

\* C4 witness: the write of an update on a loaded record has thrown; the
\* entry is in the overlay in memory, the record carries the fields, and
\* the stored item does not have them.
C4_Witness ==
    /\ Updated
    /\ call.error = QuotaExceeded
    /\ \E i \in 1..Len(tracks) : Matches(tracks[i]) /\ Carries(tracks[i])
    /\ CallKey \in DOMAIN metadata
    /\ Carries(metadata[CallKey])
    /\ ~(CallKey \in DOMAIN StoredOverlay /\ Carries(StoredOverlay[CallKey]))

----------------------------------------------------------------------------
(* The claims about parseCSV, under SpecParse.  What a file holds is read   *)
(* off the input here, independently of the loop of parseCSV.               *)

\* The last call was parseCSV, of the one or the other version.
Parsed == call.op = "parseCSV"
ParsedText == Parsed /\ variant = "manual"
ParsedResults == Parsed /\ variant = "papa"

\* The header names of a text, trimmed.
HeaderNames(text) == TrimmedCells(Split(text, "\n")[1])

\* The data lines of a text that are not blank, trimmed, in their order.
DataRows(text) ==
    LET lines == Split(text, "\n")
        rest == [i \in 1..(Len(lines) - 1) |-> Trim(lines[i + 1])]
    IN  SelectSeq(rest, LAMBDA l : l # << >>)

\* The cell of a data row under the column called name.
Cell(text, row, name) == At(TrimmedCells(row), IndexOf(HeaderNames(text), name))

\* parseCSV got as far as the loop over the data lines of the text.
HeaderAccepted(text) ==
    /\ Trim(text) # << >>
    /\ Len(Split(text, "\n")) >= 2
    /\ \A i \in 1..Len(requiredHeaders) : Includes(HeaderNames(text), requiredHeaders[i])

ArtistColumn == {S("Artist"), S("artist")}
AlbumColumn == {S("Album"), S("album")}
TrackColumn == {S("Track"), S("track")}
CountColumn == {S("Count"), S("count")}
TimeColumn == {<<"UTC", " ", "Time">>, S("utc_time"), S("timestamp")}

\* A set of column names lacks a required column.
LacksRequired(columns) ==
    \/ columns \cap ArtistColumn = {}
    \/ columns \cap AlbumColumn = {}
    \/ columns \cap TrackColumn = {}
    \/ columns \cap (CountColumn \cup TimeColumn) = {}

\* The columns of the file of the last parseCSV call.
InputColumns ==
    IF variant = "manual"
    THEN {HeaderNames(input.text)[i] : i \in 1..Len(HeaderNames(input.text))}
    ELSE {S(c) : c \in DOMAIN input.results.data[1]}

\* The last parseCSV call was given a file with a header.
InputHasHeader ==
    IF variant = "manual" THEN Trim(input.text) # << >>
    ELSE input.results.kind = "complete" /\ Len(input.results.data) > 0

\* The messages of the errors raised for a file without data rows, and for
\* malformed input.
EmptyInputMessages == {MsgNoDataRow, MsgNoValidTracks, MsgNoValidData}
FormatMessages == {MsgMissingColumns, MsgInvalidData, MsgInvalidCount, MsgPapaErrors}

\* The names (classes) of the errors raised for malformed input.
FormatErrorNames == {Error(m).name : m \in FormatMessages}

\* The file of the last parseCSV call has a valid header and no data row.
ValidHeaderNoRows ==
    IF variant = "manual"
    THEN /\ Trim(input.text) # << >>
         /\ \A i \in 1..Len(requiredHeaders) :
               Includes(HeaderNames(input.text), requiredHeaders[i])
         /\ Len(DataRows(input.text)) = 0
    ELSE /\ input.results.kind = "complete"
         /\ Len(input.results.errors) = 0
         /\ Len(input.results.data) = 0

\* A count field that is a number: digits and nothing else.
Numeric(s) == s # Undefined /\ s # << >> /\ \A i \in 1..Len(s) : s[i] \in Digit

\* C5 (as claimed): a parseCSV that fails with one of its own errors leaves
\* the tracks and the original rows exactly as they were before the call.
C5_ParseAllOrNothing ==
    [][(call'.op = "parseCSV" /\ call'.error.name = "Error") =>
        /\ tracks' = tracks
        /\ originalData' = originalData]_vars

\* C6 (as claimed): parseCSV fails on every file whose header lacks a
\* required column.
C6_MissingColumnRejected ==
    (Parsed /\ InputHasHeader /\ LacksRequired(InputColumns)) => call.error # NoError

\* C7 (as claimed): no data row whose Count is empty or holds anything but
\* digits is turned into a record: record i comes from the i-th non-blank
\* data row, whose Count is a number.
C7_NonNumericCountRejected ==
    (ParsedText /\ HeaderAccepted(input.text)) =>
        \A i \in 1..Len(tracks) :
            Numeric(Cell(input.text, DataRows(input.text)[i], S("Count")))

\* C8 (as claimed): after a successful parse every record has an integer
\* count of at least 1.
C8_CountAtLeastOne ==
    (Parsed /\ call.error = NoError) =>
        \A i \in 1..Len(tracks) :
            "count" \in DOMAIN tracks[i] /\ tracks[i].count >= 1

\* C9 (as claimed): the error for a valid header without data rows is of
\* another kind (class) than the errors raised for malformed input.
C9_DistinctErrorKind ==
    (Parsed /\ ValidHeaderNoRows) =>
        call.error # NoError /\ call.error.name \notin FormatErrorNames

\* C9 (amended): the error for a valid header without data rows carries one
\* of the messages kept for files without data, no malformed input is ever
\* answered with one of these, and they differ from every message raised
\* for malformed input.
C9_DistinctErrorMessage ==
    /\ (Parsed /\ ValidHeaderNoRows) => call.error.message \in EmptyInputMessages
    /\ (Parsed /\ call.error.message \in EmptyInputMessages) =>
          IF variant = "manual" THEN Len(DataRows(input.text)) = 0
          ELSE Len(input.results.data) = 0 /\ Len(input.results.errors) = 0
    /\ (Parsed /\ call.error.message \in FormatMessages) => ~ValidHeaderNoRows
    /\ EmptyInputMessages \cap FormatMessages = {}

\* C9 witness: a text made of a valid header and blank lines only was
\* refused for having no tracks.
C9_Witness ==
    /\ ParsedText
    /\ ValidHeaderNoRows
    /\ Len(Split(input.text, "\n")) >= 2
    /\ call.error = Error(MsgNoValidTracks)

\* C10: whenever parseCSV has gone through all rows (it resolved, or, in
\* musicAnalyzer.ts, got to the call that follows the loop), the tracks are
\* one record per non-blank data row, in the order of the rows.
C10_OneRecordPerRow ==
    /\ (ParsedText /\ call.error \in {NoError, NotAFunction}) =>
          LET rows == DataRows(input.text) IN
          /\ Len(tracks) = Len(rows)
          /\ \A i \in 1..Len(rows) :
                /\ tracks[i].artist = OrElse(Cell(input.text, rows[i], S("Artist")), << >>)
                /\ tracks[i].album = OrElse(Cell(input.text, rows[i], S("Album")), << >>)
                /\ tracks[i].track = OrElse(Cell(input.text, rows[i], S("Track")), << >>)
    /\ (ParsedResults /\ call.error = NoError) =>
          LET rows == input.results.data IN
          /\ Len(tracks) = Len(rows)
          /\ Len(originalData) = Len(rows)
          /\ \A i \in 1..Len(rows) :
                /\ tracks[i].artist = OrElse(Get(rows[i], "artist"), << >>)
                /\ tracks[i].album = OrElse(Get(rows[i], "album"), << >>)
                /\ tracks[i].track = OrElse(Get(rows[i], "track"), << >>)
                /\ tracks[i].utc_time = OrElse(Get(rows[i], "utc_time"), << >>)

\* C10 witness: a parse resolved with two different rows stored in the order
\* of the file.
C10_Witness ==
    /\ ParsedResults
    /\ call.error = NoError
    /\ Len(tracks) = 2
    /\ tracks[1].track = S("T2")
    /\ tracks[2].track = S("T1")

----------------------------------------------------------------------------
(* The claim about the overlay at load, under SpecParse. *)

\* The fields an overlay entry can hold.
MetadataFields == {"duration", "genre", "feat", "prod", "label"}

\* The column of a text that holds a field.
ColumnOf(f) ==
    CASE f = "duration" -> S("Duration")
      [] f = "genre" -> S("Genre")
      [] OTHER -> S(f)

\* The file of the last parseCSV call is well formed: a header with the
\* required columns and at least one data row, every row with as many cells
\* as the header and a numeric count.
InputWellFormed ==
    IF variant = "manual"
    THEN /\ HeaderAccepted(input.text)
         /\ Len(DataRows(input.text)) > 0
         /\ \A i \in 1..Len(DataRows(input.text)) :
               LET row == DataRows(input.text)[i] IN
               /\ Len(TrimmedCells(row)) = Len(HeaderNames(input.text))
               /\ Numeric(Cell(input.text, row, S("Count")))
    ELSE /\ input.results.kind = "complete"
         /\ Len(input.results.errors) = 0
         /\ Len(input.results.data) > 0

\* The value row i of the file has of its own for a field, "" when none.
Own(i, f) ==
    IF variant = "manual"
    THEN OrElse(Cell(input.text, DataRows(input.text)[i], ColumnOf(f)), << >>)
    ELSE OrElse(Get(input.results.data[i], f), << >>)

\* The value the overlay has for a record and a field, "" when none.
Overlaid(t, f) ==
    LET key == createTrackKey(t.artist, t.album, t.track) IN
    IF key \in DOMAIN metadata THEN OrElse(Get(metadata[key], f), << >>) ELSE << >>

\* C11 (as claimed): parseCSV of a well-formed file completes whatever the
\* overlay holds, and after a parseCSV that completed every record carries,
\* for each overlay field, the value of its own row when that is not empty,
\* else the value of the overlay entry of its key, else nothing.
C11_OverlayAppliedAtLoad ==
    /\ (Parsed /\ InputWellFormed) => call.error = NoError
    /\ (Parsed /\ call.error = NoError) =>
          \A i \in 1..Len(tracks) : \A f \in MetadataFields :
              OrElse(Get(tracks[i], f), << >>) =
                  IF Own(i, f) # << >> THEN Own(i, f) ELSE Overlaid(tracks[i], f)

----------------------------------------------------------------------------
(* The claims about saveToCSV, under SpecRoundTrip and SpecExport. *)

\* The fields of a record the round trip is to keep.
RoundTripFields == {"artist", "album", "track", "count", "utc_time", "duration", "genre"}

\* C12 (as claimed): when the records parsed from a well-formed file have
\* been exported by saveToCSV, parsing the exported file succeeds and gives
\* the same number of records with the same artist, album, track, count,
\* timestamp, duration and genre, in the same order.
C12_RoundTrip ==
    [][(call.op = "saveToCSV" /\ call'.op = "parseCSV" /\ InputWellFormed) =>
        /\ call'.error = NoError
        /\ Len(tracks') = Len(tracks)
        /\ \A i \in 1..Len(tracks) : \A f \in RoundTripFields :
              Get(tracks'[i], f) = Get(tracks[i], f)]_vars

\* The cell of row i of a table under a column, undefined without the column.
TableCell(table, i, f) ==
    IF i \in 1..Len(table.rows) THEN At(table.rows[i], IndexOf(table.fields, f))
    ELSE Undefined

\* C13: once a parseCSV has resolved, whatever updates followed, the file of
\* a saveToCSV has exactly one data row per record held, row i has the
\* artist, album and track of record i and, under duration, genre, feat,
\* prod and label, the current values of record i (empty when it has none).
C13_OneRowPerRecord ==
    (call.op = "saveToCSV" /\ loaded) =>
        /\ call.error = NoError
        /\ Len(csv.rows) = Len(tracks)
        /\ \A i \in 1..Len(tracks) :
              /\ TableCell(csv, i, "artist") = tracks[i].artist
              /\ TableCell(csv, i, "album") = tracks[i].album
              /\ TableCell(csv, i, "track") = tracks[i].track
              /\ \A f \in MetadataFields :
                    TableCell(csv, i, f) = OrElse(Get(tracks[i], f), << >>)

\* C13 witness: two records of different tracks were loaded, the first was
\* given the duration 120 and the second the genre Rock, and the export
\* carries each value in the row of its record only.
C13_Witness ==
    /\ call.op = "saveToCSV"
    /\ loaded
    /\ Len(tracks) = 2
    /\ tracks[1].track # tracks[2].track
    /\ Get(tracks[1], "duration") = D120
    /\ Get(tracks[2], "genre") = S("Rock")
    /\ TableCell(csv, 1, "duration") = D120
    /\ TableCell(csv, 2, "duration") # D120
    /\ TableCell(csv, 2, "genre") = S("Rock")

----------------------------------------------------------------------------
(* The claims about analyze, under SpecAnalyze.  The groups and what they   *)
(* should count are read off the records here, not off the maps analyze     *)
(* builds.                                                                  *)

\* The last call was analyze: statistics is the snapshot of tracks.
Analyzed == call.op = "analyze"

\* Every record carries a play count.
HaveCounts == \A k \in 1..Len(tracks) : "count" \in DOMAIN tracks[k]

\* The sum of the count fields of a sequence of records or entries.
RECURSIVE SumOfCounts(_)
SumOfCounts(seq) ==
    IF seq = << >> THEN 0 ELSE seq[1].count + SumOfCounts(Tail(seq))

\* The position of the first record that satisfies a test, 0 when none does.
FirstTrue(tests) ==
    IF \E k \in 1..Len(tests) : tests[k]
    THEN CHOOSE k \in 1..Len(tests) : tests[k] /\ \A j \in 1..(k - 1) : ~tests[j]
    ELSE 0

FirstOfArtist(name) == FirstTrue([k \in 1..Len(tracks) |-> tracks[k].artist = name])
FirstOfAlbum(name) == FirstTrue([k \in 1..Len(tracks) |-> tracks[k].album = name])

\* A record belongs to the group of a topTracks entry.
InTrackGroup(t, e) == t.artist = e.artist /\ t.album = e.album /\ t.track = e.name

FirstOfTrack(e) == FirstTrue([k \in 1..Len(tracks) |-> InTrackGroup(tracks[k], e)])

\* A ranking is by non-increasing count and, among equal counts, by the
\* position of the first record of the group (firsts[i] for entry i, 0 when
\* the group of an entry could not be told).
StablyRanked(list, firsts) ==
    \A i, j \in 1..Len(list) :
        i < j =>
            /\ list[i].count >= list[j].count
            /\ (list[i].count = list[j].count /\ firsts[i] > 0 /\ firsts[j] > 0) =>
                  firsts[i] < firsts[j]

\* C14 (as claimed): topArtists, topAlbums and topTracks are ordered by
\* non-increasing count, and of two groups with equal counts the one whose
\* first record comes earlier in the record sequence ranks first, whatever
\* the labels are.
C14_StableRanking ==
    Analyzed =>
        LET artists == statistics.topArtists
            albums == statistics.topAlbums
            top == statistics.topTracks
        IN  /\ StablyRanked(artists, [i \in 1..Len(artists) |-> FirstOfArtist(artists[i].name)])
            /\ StablyRanked(albums, [i \in 1..Len(albums) |-> FirstOfAlbum(albums[i].name)])
            /\ StablyRanked(top, [i \in 1..Len(top) |-> FirstOfTrack(top[i])])

\* C15 (as claimed): the count of an artist, album or track entry is the sum
\* of the play counts of the records of its group.
C15_SummationConvention ==
    (Analyzed /\ HaveCounts) =>
        /\ \A i \in 1..Len(statistics.topArtists) :
              LET e == statistics.topArtists[i] IN
              e.count = SumOfCounts(SelectSeq(tracks, LAMBDA t : t.artist = e.name))
        /\ \A i \in 1..Len(statistics.topAlbums) :
              LET e == statistics.topAlbums[i] IN
              e.count = SumOfCounts(SelectSeq(tracks, LAMBDA t : t.album = e.name))
        /\ \A i \in 1..Len(statistics.topTracks) :
              LET e == statistics.topTracks[i] IN
              FirstOfTrack(e) > 0 =>
                  e.count = SumOfCounts(SelectSeq(tracks, LAMBDA t : InTrackGroup(t, e)))

\* A duration that is present and a non-negative whole number of seconds.
HasDuration(t) == Numeric(Get(t, "duration"))

\* The seconds played: duration times play count, summed.
RECURSIVE PlayedSeconds(_)
PlayedSeconds(seq) ==
    IF seq = << >> THEN 0
    ELSE ParseInt(seq[1].duration).value * seq[1].count + PlayedSeconds(Tail(seq))

\* Two ratios are the same number.
SameNumber(a, b) == a.num * b.den = b.num * a.den

\* C16 (as claimed): totalListeningTime, in hours, is the sum of duration
\* times play count over the records that have a duration.
C16_TotalListeningTime ==
    (Analyzed /\ HaveCounts) =>
        SameNumber(statistics.totalListeningTime,
                   Ratio(PlayedSeconds(SelectSeq(tracks, HasDuration)), 3600))

\* A record has no duration.
AbsentDuration(t) == Get(t, "duration") \in {Undefined, << >>}

\* The sequence without its k-th element.
Without(seq, k) ==
    [i \in 1..(Len(seq) - 1) |-> IF i < k THEN seq[i] ELSE seq[i + 1]]

\* C17 (as claimed): a record without duration is counted among the artists
\* and the tracks, and totalListeningTime and averageTrackDuration are what
\* they are for the record sequence without it.
C17_AbsentDurationExcluded ==
    Analyzed =>
        \A k \in 1..Len(tracks) :
            AbsentDuration(tracks[k]) =>
                LET rest == Statistics(Without(tracks, k)) IN
                /\ Trim(tracks[k].artist) # << >> =>
                      SumOfCounts(statistics.topArtists) > SumOfCounts(rest.topArtists)
                /\ Trim(tracks[k].track) # << >> =>
                      SumOfCounts(statistics.topTracks) > SumOfCounts(rest.topTracks)
                /\ SameNumber(statistics.totalListeningTime, rest.totalListeningTime)
                /\ SameNumber(statistics.averageTrackDuration, rest.averageTrackDuration)

\* C18: byHour has exactly 24 entries, entry n for the hour n - 1, whatever
\* the records are; analyze raises no error, and with no record at all every
\* count is 0.
C18_ByHourComplete ==
    Analyzed =>
        LET byHour == statistics.listeningPatterns.byHour IN
        /\ call.error = NoError
        /\ Len(byHour) = 24
        /\ \A n \in 1..24 : byHour[n].hour = n - 1 /\ byHour[n].count >= 0
        /\ tracks = << >> => \A n \in 1..24 : byHour[n].count = 0

\* The timestamp of a record can be read.
Parseable(t) == NewDate(Get(t, "utc_time")).valid

\* C18 witness: of two records analyzed one has a timestamp that cannot be
\* read and the other was played at 14 h; byHour has its 24 entries, one
\* play at 14 h and none elsewhere.
C18_Witness ==
    /\ Analyzed
    /\ Len(tracks) = 2
    /\ ~Parseable(tracks[1])
    /\ Parseable(tracks[2])
    /\ Len(statistics.listeningPatterns.byHour) = 24
    /\ \A n \in 1..24 :
          statistics.listeningPatterns.byHour[n].count = IF n = 15 THEN 1 ELSE 0

\* The elements of a sequence.
Range(seq) == {seq[i] : i \in 1..Len(seq)}

\* C19 (as claimed): the counts of byHour, of byDay and of byMonth each sum
\* to the number of records with a readable timestamp, byDay and byMonth
\* have no bucket but week days and months, and every record with an artist
\* or a track, readable timestamp or not, has its entry in topArtists or
\* topTracks.
C19_UnreadableTimestampExcluded ==
    Analyzed =>
        LET patterns == statistics.listeningPatterns
            readable == Cardinality({k \in 1..Len(tracks) : Parseable(tracks[k])})
        IN  /\ SumOfCounts(patterns.byHour) = readable
            /\ SumOfCounts(patterns.byDay) = readable
            /\ SumOfCounts(patterns.byMonth) = readable
            /\ \A i \in 1..Len(patterns.byDay) : patterns.byDay[i].day \in Range(WeekdayNames)
            /\ \A i \in 1..Len(patterns.byMonth) : patterns.byMonth[i].month \in Range(MonthNames)
            /\ \A k \in 1..Len(tracks) :
                  Trim(tracks[k].artist) # << >> =>
                      \E e \in Range(statistics.topArtists) : e.name = tracks[k].artist

\* C20 (as claimed): no entry of topArtists or topAlbums has an empty name; a
\* record with an empty artist and a track has a topTracks entry named by
\* its track field; no topTracks entry stands for records without track.
C20_EmptyNamesExcluded ==
    Analyzed =>
        /\ \A e \in Range(statistics.topArtists) \cup Range(statistics.topAlbums) :
              Trim(e.name) # << >>
        /\ \A k \in 1..Len(tracks) :
              (Trim(tracks[k].artist) = << >> /\ Trim(tracks[k].track) # << >>) =>
                  \E e \in Range(statistics.topTracks) : InTrackGroup(tracks[k], e)
        /\ \A e \in Range(statistics.topTracks) : Trim(e.name) # << >>

----------------------------------------------------------------------------
(* The claims about track identity and groups, under SpecGroups. *)

\* The identity of a record.
Triple(t) == <<t.artist, t.album, t.track>>

\* The identities of the records that have a track.
TrackTriples ==
    {Triple(tracks[k]) : k \in {i \in 1..Len(tracks) : Trim(tracks[i].track) # << >>}}

\* C21 (as claimed): two records have the same key, and so the same overlay
\* entry, only if their artist, album and track are equal, whatever the
\* fields hold; and topTracks has exactly one group per identity that occurs
\* among the records with a track.
C21_ExactIdentity ==
    /\ \A k, l \in 1..Len(tracks) :
          createTrackKey(tracks[k].artist, tracks[k].album, tracks[k].track)
            = createTrackKey(tracks[l].artist, tracks[l].album, tracks[l].track)
          => Triple(tracks[k]) = Triple(tracks[l])
    /\ Analyzed => Len(statistics.topTracks) = Cardinality(TrackTriples)

\* C25 (as claimed): when any record of the group of a topTracks entry has
\* a duration, the entry has a duration, and likewise for the genre, also
\* when the first record of the group has none.
C25_MostPopulatedMember ==
    Analyzed =>
        \A e \in Range(statistics.topTracks) : \A f \in {"duration", "genre"} :
            (\E k \in 1..Len(tracks) :
                InTrackGroup(tracks[k], e) /\ OrElse(Get(tracks[k], f), << >>) # << >>)
            => OrElse(Get(e, f), << >>) # << >>

----------------------------------------------------------------------------
(* The claim that analyze only reads, under SpecAnalyze. *)

\* C22: analyze leaves the records, the original rows, the overlay and the
\* stored item as they are, and an analyze that follows an analyze returns
\* the same statistics.
C22_AnalyzePure ==
    [][call'.op = "analyze" =>
        /\ tracks' = tracks
        /\ originalData' = originalData
        /\ metadata' = metadata
        /\ localStorage' = localStorage
        /\ call.op = "analyze" => statistics' = statistics]_vars

\* C22 witness: analyze was called twice in a row on an engine that holds
\* two records, one without track, their original rows and an overlay entry.
C22_Witness ==
    /\ Analyzed
    /\ call.repeat
    /\ Len(tracks) = 2
    /\ Len(originalData) = 2
    /\ \E k \in 1..2 : tracks[k].track = << >>
    /\ DOMAIN metadata # {}
    /\ Len(statistics.topTracks) = 1

----------------------------------------------------------------------------
(* The claim about the life of overlay entries, under SpecSession. *)

\* C23: no call removes a key of the in-memory overlay or a field of one of
\* its entries, and a field changes its value only in an update that is
\* called with the identity of the entry and names the field.
C23_OverlayNeverShrinks ==
    [][\A key \in DOMAIN metadata :
        /\ key \in DOMAIN metadata'
        /\ \A f \in DOMAIN metadata[key] :
            /\ f \in DOMAIN metadata'[key]
            /\ metadata'[key][f] # metadata[key][f] =>
                /\ call'.op \in UpdateOps
                /\ key = createTrackKey(call'.id[1], call'.id[2], call'.id[3])
                /\ f \in DOMAIN call'.updates]_vars

\* C23 witness: the entry loaded from the stored item has been given a
\* genre and kept its duration, and the engine has since loaded a file,
\* analyzed it and exported it.
C23_Witness ==
    LET key == createTrackKey(S("A"), S("X"), S("T1")) IN
    /\ call.op = "saveToCSV"
    /\ Len(tracks) > 0
    /\ statistics # NoStatistics
    /\ csv # EmptyTable
    /\ key \in DOMAIN metadata
    /\ DOMAIN metadata[key] = {"duration", "genre"}
    /\ metadata[key].duration = D200

----------------------------------------------------------------------------
(* The claim that an update and a reload agree, under Spec. *)

\* The text fields of a record.
TrackFields ==
    {"artist", "album", "track", "utc_time", "duration", "genre", "feat", "prod", "label"}

\* Two records carry the same values, an absent text field counting as
\* empty.
SameRecord(t, u) ==
    /\ \A f \in TrackFields : OrElse(Get(t, f), << >>) = OrElse(Get(u, f), << >>)
    /\ ("count" \in DOMAIN t) = ("count" \in DOMAIN u)
    /\ "count" \in DOMAIN t => t.count = u.count

\* The records the engine would hold if the file it last read were parsed
\* again now.
Reloaded ==
    IF variant = "manual" THEN ParseText(input.text, tracks).tracks
    ELSE ParseResults(input.results, tracks, originalData, metadata).tracks

\* C26 (as claimed): right after an update the records in memory are the
\* records a new parse of the same file would give, row by row, also when
\* several rows have the updated identity.
C26_UpdateReloadAgree ==
    Updated /\ Len(tracks) > 0 =>
        /\ Len(Reloaded) = Len(tracks)
        /\ \A k \in 1..Len(tracks) : SameRecord(Reloaded[k], tracks[k])

----------------------------------------------------------------------------
(* The claim about what an update leaves alone, under SpecFrame. *)

\* The overlay entry of an identity in overlay meta; no field when there is
\* no entry.
EntryOf(meta, id) ==
    LET key == createTrackKey(id[1], id[2], id[3]) IN
    IF key \in DOMAIN meta THEN meta[key] ELSE EmptyObject

\* C29 (as claimed): an update changes the overlay entry of its identity
\* only, and there only the fields it names; the entry of every other
\* identity is as it was; every record of another identity is as it was;
\* the number, the order and the identities of the records are kept; and
\* when no record has the identity, the records stay as they were while the
\* entry has the named fields and, the write succeeding, is in the stored
\* item.
C29_UpdateFrame ==
    [][call'.op \in UpdateOps =>
        LET named == DOMAIN call'.updates
            old == EntryOf(metadata, call'.id)
            new == EntryOf(metadata', call'.id)
        IN  /\ \A id \in GroupIdentities \ {call'.id} :
                  EntryOf(metadata', id) = EntryOf(metadata, id)
            /\ \A f \in DOMAIN new \ named : f \in DOMAIN old /\ new[f] = old[f]
            /\ \A f \in DOMAIN old : f \in DOMAIN new
            /\ Len(tracks') = Len(tracks)
            /\ \A i \in 1..Len(tracks) :
                  /\ Triple(tracks'[i]) = Triple(tracks[i])
                  /\ Triple(tracks[i]) # call'.id => tracks'[i] = tracks[i]
            /\ (\A i \in 1..Len(tracks) : Triple(tracks[i]) # call'.id) =>
                  /\ tracks' = tracks
                  /\ \A f \in named : Get(new, f) = call'.updates[f]
                  /\ call'.error = NoError => StoredOverlay' = metadata']_vars

----------------------------------------------------------------------------
(* The claim about the week days and months of the plays, under SpecAnalyze. *)

\* The dates of the records whose timestamp can be read.
ReadableDates ==
    {NewDate(Get(tracks[k], "utc_time")) : k \in {i \in 1..Len(tracks) : Parseable(tracks[i])}}

\* The counts of the entries never rise from one entry to the next.
NonIncreasing(entries) ==
    \A i \in 1..Len(entries) : \A j \in i..Len(entries) : entries[i].count >= entries[j].count

\* C30 (as claimed): byDay has one entry for each week day on which a
\* record was played and no other entry, at most 7 entries, in the order of
\* non-increasing count; byMonth has one entry for each month in which a
\* record was played and no other entry, at most 12 entries, in the order
\* of non-increasing count.
C30_DaysAndMonthsThatOccur ==
    Analyzed =>
        LET byDay == statistics.listeningPatterns.byDay
            byMonth == statistics.listeningPatterns.byMonth
            days == {WeekdayText(d) : d \in ReadableDates}
            months == {MonthText(d) : d \in ReadableDates}
        IN  /\ {byDay[i].day : i \in 1..Len(byDay)} = days
            /\ Len(byDay) = Cardinality(days)
            /\ Len(byDay) <= 7
            /\ NonIncreasing(byDay)
            /\ {byMonth[i].month : i \in 1..Len(byMonth)} = months
            /\ Len(byMonth) = Cardinality(months)
            /\ Len(byMonth) <= 12
            /\ NonIncreasing(byMonth)

----------------------------------------------------------------------------
(* The claim about two engines writing one item, under SpecEngines. *)

\* C24: once an engine has written, the stored item holds the whole overlay
\* of the engine that wrote last and nothing of the other engine that this
\* overlay does not have, and an engine constructed now loads that overlay.
C24_LastWriteWins ==
    /\ writer = "first" =>
          StoredOverlay = metadata /\ Constructor(localStorage) = metadata
    /\ writer = "second" =>
          StoredOverlay = second.metadata /\ Constructor(localStorage) = second.metadata

\* C24 witness: both engines were constructed on the empty localStorage;
\* the first wrote an entry for one track, then the second wrote an entry
\* for the other: the item holds the entry of the second engine only.
C24_Witness ==
    LET key1 == createTrackKey(S("A"), S("X"), S("T1"))
        key2 == createTrackKey(S("A"), S("X"), S("T2"))
    IN  /\ writer = "second"
        /\ DOMAIN metadata = {key1}
        /\ DOMAIN second.metadata = {key2}
        /\ DOMAIN StoredOverlay = {key2}
        /\ call.op = "updateTrackMetadata"
        /\ call.error = NoError

----------------------------------------------------------------------------
(* The claim about overlapping loads, under SpecOverlap. *)

\* The records parseCSV leaves in the engine when it is given the file of a
\* load.
RecordsOf(load) ==
    IF variant = "manual" THEN ParseText(load.text, << >>).tracks
    ELSE ParseResults(load.results, << >>, << >>, metadata).tracks

\* C27 (as claimed): when a load was started while another was under way
\* and both have completed, the engine holds the records of the file of the
\* load started last.
C27_LastStartedLoadWins ==
    (/\ Len(loads) = 2
     /\ loads[2].overlaps
     /\ loads[1].done
     /\ loads[2].done) => tracks = RecordsOf(loads[2])

----------------------------------------------------------------------------
(* The claim about the duration prompt of the Home page, under SpecPrompt. *)

\* The number of topTracks entries without duration.
Lacking(stats) ==
    Cardinality({i \in 1..Len(stats.topTracks) : Not(Get(stats.topTracks[i], "duration"))})

\* C28 (as claimed): a submitted duration that is written and exported
\* makes the number of topTracks entries without duration smaller, moves
\* the prompt to another song, and closes the prompt when no entry is
\* without duration; the prompt is open only on an entry without duration.
C28_PromptProgress ==
    [][(call'.op = "saveToCSV" /\ call'.error = NoError) =>
        /\ Lacking(statistics') < Lacking(statistics)
        /\ currentSong' # currentSong
        /\ Lacking(statistics') = 0 => currentSong' = NoSong /\ ~showDurationInput']_vars

====
